---- MODULE Spec2Model ----
(***************************************************************************)
(* Model of simple_shop.py: a fixed catalog PRODUCTS, one session cart     *)
(* (a list of {"product_id", "quantity"} dicts) and the cart functions     *)
(* add_to_cart, remove_from_cart, calculate_total and checkout.            *)
(*                                                                         *)
(* Each function is an operator from its arguments to the list it leaves   *)
(* behind and the value it returns; each action is one call of a function  *)
(* on the session cart and records the call (op, args), the cart before    *)
(* the call (before) and the returned value (ret).  menu is the screen     *)
(* selected in the sidebar; Spec calls the functions directly, SpecUI      *)
(* drives them through the screens and their buttons.                      *)
(***************************************************************************)
EXTENDS Integers, Sequences, FiniteSets, TLC

VARIABLES cart, op, args, before, ret, menu

vars == <<cart, op, args, before, ret, menu>>

(* ------------------------------ bounds -------------------------------- *)

\* Largest product id offered as an argument (besides the unknown ids).
MaxPid == 3

\* Largest quantity offered as an argument.
MaxQty == 3

\* Python integers are unbounded; calls that would take a line's quantity
\* above this cap are not explored.
MaxLineQty == 4

(* ------------------------------ catalog ------------------------------- *)

PRODUCTS ==
    (1 :> [name |-> "Laptop",     price |-> 120000]) @@
    (2 :> [name |-> "Smartphone", price |-> 60000])  @@
    (3 :> [name |-> "Headphones", price |-> 5000])   @@
    (4 :> [name |-> "Keyboard",   price |-> 2500])   @@
    (5 :> [name |-> "Mouse",      price |-> 1500])

\* Python's None.
None == "None"

\* Product ids passed as arguments: catalog ids up to MaxPid, and the
\* unknown ids 0 and (largest catalog id + 1).
ProductIdInputs == (0 .. MaxPid) \cup {Cardinality(DOMAIN PRODUCTS) + 1}

\* Quantities passed as arguments: negative, zero and positive.
QuantityInputs == (-1) .. MaxQty

(* ----------------------------- functions ------------------------------ *)

\* find_cart_item: the first item whose product_id matches, as its
\* 1-based position in the list; 0 stands for None.
find_cart_item(cart_list, product_id) ==
    LET hits == {i \in 1 .. Len(cart_list) :
                    cart_list[i].product_id = product_id}
    IN  IF hits = {} THEN 0
        ELSE CHOOSE i \in hits : \A j \in hits : i <= j

\* list.remove(x): delete the first element equal to x.  (x is always an
\* element of the list here, so ValueError cannot be raised.)
list_remove(lst, x) ==
    LET hits == {i \in 1 .. Len(lst) : lst[i] = x}
        k    == CHOOSE i \in hits : \A j \in hits : i <= j
    IN  IF hits = {} THEN lst
        ELSE [i \in 1 .. (Len(lst) - 1) |->
                 IF i < k THEN lst[i] ELSE lst[i + 1]]

\* Variants of add_to_cart, each with one fault.
add_to_cart_always_append(cart_list, product_id, quantity) ==
    IF product_id \notin DOMAIN PRODUCTS
    THEN [cart |-> cart_list, ret |-> <<FALSE, "Invalid Product ID">>]
    ELSE IF quantity <= 0
    THEN [cart |-> cart_list,
          ret  |-> <<FALSE, "Quantity must be at least 1">>]
    ELSE [cart |-> Append(cart_list,
                      [product_id |-> product_id, quantity |-> quantity]),
          ret  |-> <<TRUE, None>>]

add_to_cart_qty_lt(cart_list, product_id, quantity) ==
    IF product_id \notin DOMAIN PRODUCTS
    THEN [cart |-> cart_list, ret |-> <<FALSE, "Invalid Product ID">>]
    ELSE IF quantity < 0
    THEN [cart |-> cart_list,
          ret  |-> <<FALSE, "Quantity must be at least 1">>]
    ELSE LET existing_item == find_cart_item(cart_list, product_id)
         IN  IF existing_item # 0
             THEN [cart |-> [cart_list EXCEPT
                               ![existing_item].quantity = @ + quantity],
                   ret  |-> <<TRUE, None>>]
             ELSE [cart |-> Append(cart_list,
                               [product_id |-> product_id,
                                quantity   |-> quantity]),
                   ret  |-> <<TRUE, None>>]

add_to_cart_qty_first(cart_list, product_id, quantity) ==
    IF quantity <= 0
    THEN [cart |-> cart_list,
          ret  |-> <<FALSE, "Quantity must be at least 1">>]
    ELSE IF product_id \notin DOMAIN PRODUCTS
    THEN [cart |-> cart_list, ret |-> <<FALSE, "Invalid Product ID">>]
    ELSE LET existing_item == find_cart_item(cart_list, product_id)
         IN  IF existing_item # 0
             THEN [cart |-> [cart_list EXCEPT
                               ![existing_item].quantity = @ + quantity],
                   ret  |-> <<TRUE, None>>]
             ELSE [cart |-> Append(cart_list,
                               [product_id |-> product_id,
                                quantity   |-> quantity]),
                   ret  |-> <<TRUE, None>>]

add_to_cart_move_to_end(cart_list, product_id, quantity) ==
    IF product_id \notin DOMAIN PRODUCTS
    THEN [cart |-> cart_list, ret |-> <<FALSE, "Invalid Product ID">>]
    ELSE IF quantity <= 0
    THEN [cart |-> cart_list,
          ret  |-> <<FALSE, "Quantity must be at least 1">>]
    ELSE LET existing_item == find_cart_item(cart_list, product_id)
         IN  IF existing_item # 0
             THEN [cart |-> Append(
                               list_remove(cart_list,
                                           cart_list[existing_item]),
                               [product_id |-> product_id,
                                quantity   |->
                                    cart_list[existing_item].quantity
                                    + quantity]),
                   ret  |-> <<TRUE, None>>]
             ELSE [cart |-> Append(cart_list,
                               [product_id |-> product_id,
                                quantity   |-> quantity]),
                   ret  |-> <<TRUE, None>>]

add_to_cart_insert_front(cart_list, product_id, quantity) ==
    IF product_id \notin DOMAIN PRODUCTS
    THEN [cart |-> cart_list, ret |-> <<FALSE, "Invalid Product ID">>]
    ELSE IF quantity <= 0
    THEN [cart |-> cart_list,
          ret  |-> <<FALSE, "Quantity must be at least 1">>]
    ELSE LET existing_item == find_cart_item(cart_list, product_id)
         IN  IF existing_item # 0
             THEN [cart |-> [cart_list EXCEPT
                               ![existing_item].quantity = @ + quantity],
                   ret  |-> <<TRUE, None>>]
             ELSE [cart |-> <<[product_id |-> product_id,
                               quantity   |-> quantity]>> \o cart_list,
                   ret  |-> <<TRUE, None>>]

add_to_cart_assign(cart_list, product_id, quantity) ==
    IF product_id \notin DOMAIN PRODUCTS
    THEN [cart |-> cart_list, ret |-> <<FALSE, "Invalid Product ID">>]
    ELSE IF quantity <= 0
    THEN [cart |-> cart_list,
          ret  |-> <<FALSE, "Quantity must be at least 1">>]
    ELSE LET existing_item == find_cart_item(cart_list, product_id)
         IN  IF existing_item # 0
             THEN [cart |-> [cart_list EXCEPT
                               ![existing_item].quantity = quantity],
                   ret  |-> <<TRUE, None>>]
             ELSE [cart |-> Append(cart_list,
                               [product_id |-> product_id,
                                quantity   |-> quantity]),
                   ret  |-> <<TRUE, None>>]

\* add_to_cart: the list after the call and the returned (success, err).
add_to_cart(cart_list, product_id, quantity) ==
    IF product_id \notin DOMAIN PRODUCTS
    THEN [cart |-> cart_list, ret |-> <<FALSE, "Invalid Product ID">>]
    ELSE IF quantity <= 0
    THEN [cart |-> cart_list,
          ret  |-> <<FALSE, "Quantity must be at least 1">>]
    ELSE LET existing_item == find_cart_item(cart_list, product_id)
         IN  IF existing_item # 0
             THEN [cart |-> [cart_list EXCEPT
                               ![existing_item].quantity = @ + quantity],
                   ret  |-> <<TRUE, None>>]
             ELSE [cart |-> Append(cart_list,
                               [product_id |-> product_id,
                                quantity   |-> quantity]),
                   ret  |-> <<TRUE, None>>]

\* Variants of remove_from_cart, each with one fault.
remove_from_cart_strict(cart_list, product_id, quantity) ==
    LET existing_item == find_cart_item(cart_list, product_id)
    IN  IF existing_item = 0
        THEN [cart |-> cart_list, ret |-> <<FALSE, "Item not found in cart">>]
        ELSE IF quantity <= 0
        THEN [cart |-> cart_list,
              ret  |-> <<FALSE, "Quantity must be at least 1">>]
        ELSE IF quantity > cart_list[existing_item].quantity
        THEN [cart |-> list_remove(cart_list, cart_list[existing_item]),
              ret  |-> <<TRUE, None>>]
        ELSE [cart |-> [cart_list EXCEPT
                          ![existing_item].quantity = @ - quantity],
              ret  |-> <<TRUE, None>>]

remove_from_cart_assign(cart_list, product_id, quantity) ==
    LET existing_item == find_cart_item(cart_list, product_id)
    IN  IF existing_item = 0
        THEN [cart |-> cart_list, ret |-> <<FALSE, "Item not found in cart">>]
        ELSE IF quantity <= 0
        THEN [cart |-> cart_list,
              ret  |-> <<FALSE, "Quantity must be at least 1">>]
        ELSE IF quantity >= cart_list[existing_item].quantity
        THEN [cart |-> list_remove(cart_list, cart_list[existing_item]),
              ret  |-> <<TRUE, None>>]
        ELSE [cart |-> [cart_list EXCEPT
                          ![existing_item].quantity = quantity],
              ret  |-> <<TRUE, None>>]

remove_from_cart_qty_first(cart_list, product_id, quantity) ==
    LET existing_item == find_cart_item(cart_list, product_id)
    IN  IF quantity <= 0
        THEN [cart |-> cart_list,
              ret  |-> <<FALSE, "Quantity must be at least 1">>]
        ELSE IF existing_item = 0
        THEN [cart |-> cart_list, ret |-> <<FALSE, "Item not found in cart">>]
        ELSE IF quantity >= cart_list[existing_item].quantity
        THEN [cart |-> list_remove(cart_list, cart_list[existing_item]),
              ret  |-> <<TRUE, None>>]
        ELSE [cart |-> [cart_list EXCEPT
                          ![existing_item].quantity = @ - quantity],
              ret  |-> <<TRUE, None>>]

remove_from_cart_clear(cart_list, product_id, quantity) ==
    LET existing_item == find_cart_item(cart_list, product_id)
    IN  IF existing_item = 0
        THEN [cart |-> cart_list, ret |-> <<FALSE, "Item not found in cart">>]
        ELSE IF quantity <= 0
        THEN [cart |-> cart_list,
              ret  |-> <<FALSE, "Quantity must be at least 1">>]
        ELSE IF quantity >= cart_list[existing_item].quantity
        THEN [cart |-> <<>>, ret |-> <<TRUE, None>>]
        ELSE [cart |-> [cart_list EXCEPT
                          ![existing_item].quantity = @ - quantity],
              ret  |-> <<TRUE, None>>]

\* remove_from_cart: the list after the call and the returned (success, err).
remove_from_cart(cart_list, product_id, quantity) ==
    LET existing_item == find_cart_item(cart_list, product_id)
    IN  IF existing_item = 0
        THEN [cart |-> cart_list, ret |-> <<FALSE, "Item not found in cart">>]
        ELSE IF quantity <= 0
        THEN [cart |-> cart_list,
              ret  |-> <<FALSE, "Quantity must be at least 1">>]
        ELSE IF quantity >= cart_list[existing_item].quantity
        THEN [cart |-> list_remove(cart_list, cart_list[existing_item]),
              ret  |-> <<TRUE, None>>]
        ELSE [cart |-> [cart_list EXCEPT
                          ![existing_item].quantity = @ - quantity],
              ret  |-> <<TRUE, None>>]

\* The loop of calculate_total from item i on, with the running total.
RECURSIVE calculate_total_loop(_, _, _)
calculate_total_loop(cart_list, i, total) ==
    IF i > Len(cart_list) THEN total
    ELSE LET pid == cart_list[i].product_id
             qty == cart_list[i].quantity
         IN  calculate_total_loop(cart_list, i + 1,
                 IF pid \in DOMAIN PRODUCTS
                 THEN total + PRODUCTS[pid].price * qty
                 ELSE total)

\* calculate_total iterating over cart_list[1:] (the first item left out).
calculate_total_skip_first(cart_list) == calculate_total_loop(cart_list, 2, 0)

calculate_total(cart_list) == calculate_total_loop(cart_list, 1, 0)

\* checkout that clears the list before it computes the total.
checkout_clear_first(cart_list) ==
    [cart |-> <<>>, ret |-> calculate_total(<<>>)]

\* checkout: the (cleared) list after the call and the returned total.
checkout(cart_list) ==
    [cart |-> <<>>, ret |-> calculate_total(cart_list)]

\* The keys of PRODUCTS in the order the dict literal inserts them, which is
\* the order PRODUCTS.items() iterates in.
PRODUCTS_keys == <<1, 2, 3, 4, 5>>

\* show_products listing the catalog from its last entry to its first.
show_products_reversed ==
    [i \in 1 .. Len(PRODUCTS_keys) |->
        LET pid == PRODUCTS_keys[Len(PRODUCTS_keys) + 1 - i]
        IN  <<pid, PRODUCTS[pid].name, PRODUCTS[pid].price>>]

\* show_products: the list of (id, name, price) over PRODUCTS.items().
show_products ==
    [i \in 1 .. Len(PRODUCTS_keys) |->
        LET pid == PRODUCTS_keys[i]
        IN  <<pid, PRODUCTS[pid].name, PRODUCTS[pid].price>>]

\* The loop of view_cart from item i on, with the items collected so far.
RECURSIVE view_cart_loop(_, _, _)
view_cart_loop(cart_list, i, items) ==
    IF i > Len(cart_list) THEN items
    ELSE LET pid == cart_list[i].product_id
             qty == cart_list[i].quantity
         IN  view_cart_loop(cart_list, i + 1,
                 IF pid \in DOMAIN PRODUCTS
                 THEN Append(items,
                          [product_id |-> pid,
                           name       |-> PRODUCTS[pid].name,
                           price      |-> PRODUCTS[pid].price,
                           quantity   |-> qty,
                           subtotal   |-> PRODUCTS[pid].price * qty])
                 ELSE items)

\* view_cart whose subtotal is the unit price.
view_cart_unit_price(cart_list) ==
    LET items == view_cart_loop(cart_list, 1, <<>>)
    IN  [i \in 1 .. Len(items) |->
            [items[i] EXCEPT !.subtotal = items[i].price]]

view_cart(cart_list) == view_cart_loop(cart_list, 1, <<>>)

(* ------------------------------ actions ------------------------------- *)

Init ==
    /\ cart = <<>>
    /\ op = "start"
    /\ args = <<>>
    /\ before = <<>>
    /\ ret = None
    /\ menu = "View Products"

WithinCap(cart_list) ==
    \A i \in 1 .. Len(cart_list) : cart_list[i].quantity <= MaxLineQty

AddToCart ==
    \E product_id \in ProductIdInputs, quantity \in QuantityInputs :
        LET r == add_to_cart(cart, product_id, quantity)
        IN  /\ WithinCap(r.cart)
            /\ cart' = r.cart
            /\ ret' = r.ret
            /\ op' = "add_to_cart"
            /\ args' = <<product_id, quantity>>
            /\ before' = cart
            /\ UNCHANGED menu

RemoveFromCart ==
    \E product_id \in ProductIdInputs, quantity \in QuantityInputs :
        LET r == remove_from_cart(cart, product_id, quantity)
        IN  /\ WithinCap(r.cart)
            /\ cart' = r.cart
            /\ ret' = r.ret
            /\ op' = "remove_from_cart"
            /\ args' = <<product_id, quantity>>
            /\ before' = cart
            /\ UNCHANGED menu

CalculateTotal ==
    /\ ret' = calculate_total(cart)
    /\ op' = "calculate_total"
    /\ args' = <<>>
    /\ before' = cart
    /\ UNCHANGED <<cart, menu>>

Checkout ==
    LET r == checkout(cart)
    IN  /\ cart' = r.cart
        /\ ret' = r.ret
        /\ op' = "checkout"
        /\ args' = <<>>
        /\ before' = cart
        /\ UNCHANGED menu

ViewCart ==
    /\ ret' = view_cart(cart)
    /\ op' = "view_cart"
    /\ args' = <<>>
    /\ before' = cart
    /\ UNCHANGED <<cart, menu>>

ShowProducts ==
    /\ ret' = show_products
    /\ op' = "show_products"
    /\ args' = <<>>
    /\ before' = cart
    /\ UNCHANGED <<cart, menu>>

Next ==
    \/ AddToCart
    \/ RemoveFromCart
    \/ CalculateTotal
    \/ Checkout
    \/ ViewCart
    \/ ShowProducts

Spec == Init /\ [][Next]_vars

(* -------------------------------- UI ---------------------------------- *)

\* The options of the sidebar selectbox; the first one is its default.
MenuOptions ==
    {"View Products", "Add to Cart", "View Cart", "Remove Item", "Checkout",
     "Debug: Show Raw Cart"}

\* Values of the product id fields: number_input(min_value=1, step=1),
\* catalog ids up to MaxPid and one id above the catalog.
UIProductIdInputs ==
    (1 .. MaxPid) \cup {Cardinality(DOMAIN PRODUCTS) + 1}

\* number_input(min_value=0): a quantity field that accepts 0.
UIQuantityInputs_min0 == 0 .. MaxQty

\* Values of the quantity fields: number_input(min_value=1, step=1, value=1).
UIQuantityInputs == 1 .. MaxQty

\* What a run of the script writes for the selected screen.
Page(m, cart_list) ==
    CASE m = "View Products" -> [products |-> show_products]
      [] m = "Add to Cart" -> [products |-> show_products]
      [] m = "View Cart" ->
            LET items == view_cart(cart_list)
            IN  IF items = <<>>
                THEN [info |-> "Your cart is empty."]
                ELSE [items |-> items, total |-> calculate_total(cart_list)]
      [] m = "Remove Item" ->
            IF cart_list = <<>>
            THEN [info |-> "Your cart is empty. Nothing to remove."]
            ELSE [items |-> view_cart(cart_list)]
      [] m = "Checkout" ->
            IF cart_list = <<>>
            THEN [info |->
                    "Your cart is empty. Please add items before checkout."]
            ELSE [items |-> view_cart(cart_list)]
      [] m = "Debug: Show Raw Cart" -> [raw |-> cart_list]

\* The user picks a screen in the sidebar and the script renders it.
SelectMenu ==
    \E m \in MenuOptions :
        /\ menu' = m
        /\ op' = "render"
        /\ args' = <<m>>
        /\ before' = cart
        /\ ret' = Page(m, cart)
        /\ UNCHANGED cart

\* The "Add to Cart" button of the Add to Cart screen.
ClickAddToCart ==
    /\ menu = "Add to Cart"
    /\ \E prod_id \in UIProductIdInputs, qty \in UIQuantityInputs :
          LET r == add_to_cart(cart, prod_id, qty)
          IN  /\ WithinCap(r.cart)
              /\ cart' = r.cart
              /\ ret' = r.ret
              /\ op' = "add_to_cart"
              /\ args' = <<prod_id, qty>>
              /\ before' = cart
    /\ UNCHANGED menu

\* The "Remove from Cart" button, drawn only while the cart is not empty.
ClickRemoveFromCart ==
    /\ menu = "Remove Item"
    /\ cart # <<>>
    /\ \E prod_id \in UIProductIdInputs, qty \in UIQuantityInputs :
          LET r == remove_from_cart(cart, prod_id, qty)
          IN  /\ cart' = r.cart
              /\ ret' = r.ret
              /\ op' = "remove_from_cart"
              /\ args' = <<prod_id, qty>>
              /\ before' = cart
    /\ UNCHANGED menu

\* A Checkout screen that draws "Confirm Checkout" for the empty cart too.
ClickConfirmCheckout_always ==
    /\ menu = "Checkout"
    /\ LET r == checkout(cart)
       IN  /\ cart' = r.cart
           /\ ret' = r.ret
           /\ op' = "checkout"
           /\ args' = <<>>
           /\ before' = cart
    /\ UNCHANGED menu

\* The "Confirm Checkout" button, drawn only while the cart is not empty.
ClickConfirmCheckout ==
    /\ menu = "Checkout"
    /\ cart # <<>>
    /\ LET r == checkout(cart)
       IN  /\ cart' = r.cart
           /\ ret' = r.ret
           /\ op' = "checkout"
           /\ args' = <<>>
           /\ before' = cart
    /\ UNCHANGED menu

NextUI ==
    \/ SelectMenu
    \/ ClickAddToCart
    \/ ClickRemoveFromCart
    \/ ClickConfirmCheckout

SpecUI == Init /\ [][NextUI]_vars

(* --------------------------- vocabulary -------------------------------- *)

InvalidProduct  == <<FALSE, "Invalid Product ID">>
InvalidQuantity == <<FALSE, "Quantity must be at least 1">>
ItemNotFound    == <<FALSE, "Item not found in cart">>
Success         == <<TRUE, None>>

\* The product ids of a list, in list order.
Pids(cart_list) == [i \in 1 .. Len(cart_list) |-> cart_list[i].product_id]

\* Positions of the lines of product p in a list.
LinesOf(cart_list, p) ==
    {i \in 1 .. Len(cart_list) : cart_list[i].product_id = p}

\* Sum of price * quantity over the lines at the positions in S.
RECURSIVE SumOver(_, _)
SumOver(cart_list, S) ==
    IF S = {} THEN 0
    ELSE LET i == CHOOSE j \in S : TRUE
         IN  PRODUCTS[cart_list[i].product_id].price * cart_list[i].quantity
             + SumOver(cart_list, S \ {i})

SumOfLines(cart_list) == SumOver(cart_list, 1 .. Len(cart_list))

(* ------------------------------ claims -------------------------------- *)

\* C1: in every reachable state every cart line has a product_id of the
\* catalog and a quantity strictly greater than 0.
C1_LinesValid ==
    \A i \in 1 .. Len(cart) :
        /\ cart[i].product_id \in DOMAIN PRODUCTS
        /\ cart[i].quantity > 0

\* A removal of less than the line's quantity left the line with quantity 1
\* among other lines.
C1_Witness ==
    /\ op = "remove_from_cart"
    /\ ret = Success
    /\ Len(cart) >= 2
    /\ \E i \in 1 .. Len(cart) :
          /\ cart[i].product_id = args[1]
          /\ cart[i].quantity = 1
          /\ before[i].quantity = 1 + args[2]

\* C2: in every reachable state the cart holds at most one line per
\* product_id; adding q1 and then q2 of one product gives one line.
C2_OneLinePerProduct ==
    \A i, j \in 1 .. Len(cart) :
        cart[i].product_id = cart[j].product_id => i = j

\* A second successful add of a product that already had a line.
C2_Witness ==
    /\ op = "add_to_cart"
    /\ ret = Success
    /\ LinesOf(before, args[1]) # {}
    /\ Cardinality(LinesOf(cart, args[1])) = 1
    /\ Len(cart) >= 2

\* C3 (as claimed): add_to_cart with a quantity <= 0 fails with the
\* invalid-quantity reason and leaves the cart unchanged, whatever the
\* product id.
C3_Original ==
    (op = "add_to_cart" /\ args[2] <= 0)
        => (ret = InvalidQuantity /\ cart = before)

\* C3 (amended): add_to_cart of a catalog product with a quantity <= 0
\* fails with the invalid-quantity reason; add_to_cart with a quantity <= 0
\* of any product id fails and leaves the cart unchanged.
C3_InvalidQuantity ==
    (op = "add_to_cart" /\ args[2] <= 0)
        => /\ ret[1] = FALSE
           /\ cart = before
           /\ (args[1] \in DOMAIN PRODUCTS => ret = InvalidQuantity)

\* A catalog product was added with quantity <= 0 to a non-empty cart.
C3_Witness ==
    /\ op = "add_to_cart"
    /\ args[1] \in DOMAIN PRODUCTS
    /\ args[2] <= 0
    /\ ret = InvalidQuantity
    /\ cart # <<>>

\* C4: add_to_cart with a product id that is not in the catalog fails with
\* the invalid-product reason and leaves the cart unchanged, whatever the
\* quantity.
C4_InvalidProduct ==
    (op = "add_to_cart" /\ args[1] \notin DOMAIN PRODUCTS)
        => (ret = InvalidProduct /\ cart = before)

\* An unknown product was added with a quantity <= 0 to a non-empty cart.
C4_Witness ==
    /\ op = "add_to_cart"
    /\ args[1] \notin DOMAIN PRODUCTS
    /\ args[2] <= 0
    /\ ret = InvalidProduct
    /\ cart # <<>>

\* C5: add_to_cart of q > 0 of a catalog product that has a line succeeds
\* and adds q to that line in place: same length, same product ids at the
\* same positions, every other quantity unchanged.
C5_IncrementInPlace ==
    (/\ op = "add_to_cart"
     /\ args[1] \in DOMAIN PRODUCTS
     /\ args[2] > 0
     /\ LinesOf(before, args[1]) # {})
        => /\ ret = Success
           /\ Len(cart) = Len(before)
           /\ Pids(cart) = Pids(before)
           /\ \A i \in 1 .. Len(before) :
                 cart[i].quantity =
                     before[i].quantity
                     + (IF before[i].product_id = args[1]
                        THEN args[2] ELSE 0)

\* Products 3, 1, 2 were added in this order and product 1 was added again.
C5_Witness ==
    /\ op = "add_to_cart"
    /\ ret = Success
    /\ args[1] = 1
    /\ Pids(before) = <<3, 1, 2>>
    /\ Pids(cart) = <<3, 1, 2>>
    /\ cart[2].quantity = before[2].quantity + args[2]

\* C6: add_to_cart of q > 0 of a catalog product p that has no line
\* succeeds and appends the one line {p, q} at the end, all earlier lines
\* unchanged and in their order; on the empty cart the result is <<{p, q}>>.
C6_AppendNewLine ==
    (/\ op = "add_to_cart"
     /\ args[1] \in DOMAIN PRODUCTS
     /\ args[2] > 0
     /\ LinesOf(before, args[1]) = {})
        => /\ ret = Success
           /\ Len(cart) = Len(before) + 1
           /\ \A i \in 1 .. Len(before) : cart[i] = before[i]
           /\ cart[Len(cart)] =
                 [product_id |-> args[1], quantity |-> args[2]]
           /\ (before = <<>> =>
                 cart = <<[product_id |-> args[1], quantity |-> args[2]]>>)

\* A new product was appended to a cart that already had two lines.
C6_Witness ==
    /\ op = "add_to_cart"
    /\ ret = Success
    /\ Len(before) = 2
    /\ LinesOf(before, args[1]) = {}
    /\ Len(cart) = 3
    /\ cart[3].product_id = args[1]

\* C7: remove_from_cart of q > 0 of a product whose line has quantity n
\* succeeds; with q >= n the line is deleted, with q < n it stays at its
\* position with quantity n - q; all other lines keep quantity and order.
C7_Remove ==
    (/\ op = "remove_from_cart"
     /\ args[2] > 0
     /\ LinesOf(before, args[1]) # {})
        => LET k == CHOOSE i \in LinesOf(before, args[1]) : TRUE
               n == before[k].quantity
           IN  /\ ret = Success
               /\ (args[2] >= n =>
                     /\ Len(cart) = Len(before) - 1
                     /\ \A i \in 1 .. Len(cart) :
                           cart[i] = IF i < k THEN before[i]
                                     ELSE before[i + 1])
               /\ (args[2] < n =>
                     /\ Len(cart) = Len(before)
                     /\ \A i \in 1 .. Len(cart) :
                           cart[i] = IF i = k
                                     THEN [product_id |-> args[1],
                                           quantity   |-> n - args[2]]
                                     ELSE before[i])

\* The middle line of three was deleted by a removal of more than it held.
C7_Witness ==
    /\ op = "remove_from_cart"
    /\ ret = Success
    /\ Len(before) = 3
    /\ before[2].product_id = args[1]
    /\ args[2] > before[2].quantity
    /\ cart = <<before[1], before[3]>>

\* C8: remove_from_cart fails with the item-not-found reason when the cart
\* has no line for the product, and with the invalid-quantity reason when a
\* line exists and the quantity is <= 0; a failed call leaves the cart
\* as it was.
C8_RemoveFails ==
    (op = "remove_from_cart")
        => /\ (LinesOf(before, args[1]) = {} => ret = ItemNotFound)
           /\ (LinesOf(before, args[1]) # {} /\ args[2] <= 0
                 => ret = InvalidQuantity)
           /\ (ret[1] = FALSE => cart = before)

\* A removal with quantity <= 0 of a product without a line, from a
\* non-empty cart.
C8_Witness ==
    /\ op = "remove_from_cart"
    /\ LinesOf(before, args[1]) = {}
    /\ args[2] <= 0
    /\ before # <<>>
    /\ ret = ItemNotFound
    /\ cart = before

\* C9: checkout returns the sum of price * quantity of the cart before the
\* call (245000 for lines {1,2},{3,1}; 0 for the empty cart) and leaves the
\* cart empty; a checkout right after a checkout returns 0.
C9_Checkout ==
    /\ [](op = "checkout" =>
            /\ ret = SumOfLines(before)
            /\ cart = <<>>
            /\ (before = <<>> => ret = 0)
            /\ (before = <<[product_id |-> 1, quantity |-> 2],
                           [product_id |-> 3, quantity |-> 1]>>
                  => ret = 245000))
    /\ [][(op = "checkout" /\ op' = "checkout")
             => (ret' = 0 /\ cart' = <<>>)]_vars

\* The checkout of the cart with lines {1,2},{3,1}.
C9_Witness ==
    /\ op = "checkout"
    /\ before = <<[product_id |-> 1, quantity |-> 2],
                  [product_id |-> 3, quantity |-> 1]>>
    /\ ret = 245000
    /\ cart = <<>>

\* C10: in every reachable state calculate_total of the cart is the sum of
\* price * quantity over all its lines, 0 for the empty cart, and a
\* calculate_total call returns that sum and does not modify the cart.
C10_Total ==
    /\ calculate_total(cart) = SumOfLines(cart)
    /\ (cart = <<>> => calculate_total(cart) = 0)
    /\ (op = "calculate_total" =>
            /\ ret = SumOfLines(before)
            /\ cart = before)

\* calculate_total was called on a cart of three lines.
C10_Witness ==
    /\ op = "calculate_total"
    /\ Len(cart) = 3
    /\ ret = SumOfLines(cart)
    /\ ret > 0

\* C11: a successful add_to_cart(p, q), q > 0, followed at once by
\* remove_from_cart(p, q) succeeds and leaves the cart exactly as it was
\* before the add (same lines, quantities and order).
C11_AddRemoveRoundTrip ==
    [][(/\ op = "add_to_cart"
        /\ ret = Success
        /\ op' = "remove_from_cart"
        /\ args' = args)
          => (ret' = Success /\ cart' = before)]_vars

\* The end of such a round trip on a cart of two lines whose first line is
\* the product's: the cart before the removal is what add_to_cart(p, q)
\* makes of the present cart.
C11_Witness ==
    /\ op = "remove_from_cart"
    /\ ret = Success
    /\ Len(cart) = 2
    /\ cart[1].product_id = args[1]
    /\ add_to_cart(cart, args[1], args[2]).ret = Success
    /\ before = add_to_cart(cart, args[1], args[2]).cart

\* C12 (as claimed): a step that takes a non-empty cart to the empty cart is
\* always a checkout.
C12_Original ==
    (before # <<>> /\ cart = <<>>) => op = "checkout"

\* C12 (amended): a step that takes a non-empty cart to the empty cart is a
\* checkout, or a successful remove_from_cart of the cart's only line with
\* a quantity >= that line's; never an add_to_cart.  Every step other than a
\* checkout deletes at most one line.
C12_OnlyCheckoutClears ==
    /\ (before # <<>> /\ cart = <<>>) =>
          \/ op = "checkout"
          \/ /\ op = "remove_from_cart"
             /\ ret = Success
             /\ Len(before) = 1
             /\ before[1].product_id = args[1]
             /\ args[2] >= before[1].quantity
    /\ (op # "checkout" => Len(cart) >= Len(before) - 1)

\* A checkout emptied a cart of three lines.
C12_Witness ==
    /\ op = "checkout"
    /\ Len(before) = 3
    /\ cart = <<>>

\* Sum of the subtotals of the items at the positions in S.
RECURSIVE SumSubtotals(_, _)
SumSubtotals(items, S) ==
    IF S = {} THEN 0
    ELSE LET i == CHOOSE j \in S : TRUE
         IN  items[i].subtotal + SumSubtotals(items, S \ {i})

\* The detail record the catalog gives for one cart line.
LineDetail(line) ==
    [product_id |-> line.product_id,
     name       |-> PRODUCTS[line.product_id].name,
     price      |-> PRODUCTS[line.product_id].price,
     quantity   |-> line.quantity,
     subtotal   |-> PRODUCTS[line.product_id].price * line.quantity]

\* C13: in every reachable state view_cart gives one detail record per
\* cart line, in cart order, with the line's product_id and quantity, the
\* catalog name and price and subtotal = price * quantity; the subtotals sum
\* to calculate_total; a view_cart call returns this and leaves the cart.
C13_ViewCart ==
    LET items == view_cart(cart)
    IN  /\ Len(items) = Len(cart)
        /\ \A i \in 1 .. Len(cart) : items[i] = LineDetail(cart[i])
        /\ SumSubtotals(items, 1 .. Len(items)) = calculate_total(cart)
        /\ (op = "view_cart" =>
               /\ cart = before
               /\ Len(ret) = Len(before)
               /\ \A i \in 1 .. Len(before) : ret[i] = LineDetail(before[i]))

\* view_cart was called on a cart of three lines, one with quantity > 1.
C13_Witness ==
    /\ op = "view_cart"
    /\ Len(ret) = 3
    /\ Pids(cart) = <<ret[1].product_id, ret[2].product_id,
                      ret[3].product_id>>
    /\ \E i \in 1 .. 3 : ret[i].quantity > 1
                         /\ ret[i].subtotal = ret[i].price * ret[i].quantity

\* A list holds every catalog product exactly once as (id, name, price), in
\* ascending order of id.
IsCatalogListing(data) ==
    /\ Len(data) = Cardinality(DOMAIN PRODUCTS)
    /\ \A pid \in DOMAIN PRODUCTS :
          Cardinality({i \in 1 .. Len(data) :
              data[i] = <<pid, PRODUCTS[pid].name, PRODUCTS[pid].price>>}) = 1
    /\ \A i, j \in 1 .. Len(data) : i < j => data[i][1] < data[j][1]

\* C14: show_products returns every catalog product exactly once as
\* (id, name, price) in ascending order of id, whatever cart operations ran
\* before, and leaves the cart alone.
C14_ShowProducts ==
    /\ IsCatalogListing(show_products)
    /\ (op = "show_products" => (IsCatalogListing(ret) /\ cart = before))

\* show_products was called after the cart had been filled.
C14_Witness ==
    /\ op = "show_products"
    /\ Len(cart) >= 2
    /\ Len(ret) = 5
    /\ ret[1] = <<1, "Laptop", 120000>>
    /\ ret[5] = <<5, "Mouse", 1500>>

Min(a, b) == IF a <= b THEN a ELSE b

\* C15: a successful add_to_cart(p, q) raises calculate_total by exactly
\* price(p) * q; a successful remove_from_cart(p, q) on a line of quantity n
\* lowers it by exactly price(p) * min(q, n); a failed call leaves it
\* unchanged; calculate_total is never negative.
C15_TotalDelta ==
    /\ calculate_total(cart) >= 0
    /\ (op = "add_to_cart" =>
          calculate_total(cart) =
              calculate_total(before)
              + (IF ret[1] THEN PRODUCTS[args[1]].price * args[2] ELSE 0))
    /\ (op = "remove_from_cart" =>
          calculate_total(cart) =
              calculate_total(before)
              - (IF ret[1]
                 THEN LET k == CHOOSE i \in LinesOf(before, args[1]) : TRUE
                      IN  PRODUCTS[args[1]].price
                          * Min(args[2], before[k].quantity)
                 ELSE 0))

\* A removal of more than the line held, from a cart with other lines.
C15_Witness ==
    /\ op = "remove_from_cart"
    /\ ret = Success
    /\ cart # <<>>
    /\ \E k \in LinesOf(before, args[1]) :
          /\ args[2] > before[k].quantity
          /\ calculate_total(cart) =
                calculate_total(before)
                - PRODUCTS[args[1]].price * before[k].quantity

\* C16: driven through the screens, checkout never runs on an empty cart;
\* every checkout returns a total > 0 and leaves the empty cart.
C16_UICheckoutNonEmpty ==
    (op = "checkout") =>
        /\ before # <<>>
        /\ ret > 0
        /\ cart = <<>>
        /\ menu = "Checkout"

\* "Confirm Checkout" was clicked on a cart of two lines.
C16_Witness ==
    /\ op = "checkout"
    /\ menu = "Checkout"
    /\ Len(before) = 2
    /\ ret = SumOfLines(before)
    /\ cart = <<>>

\* C17: driven through the screens, the product id and quantity passed to
\* add_to_cart and remove_from_cart are integers >= 1 and no call fails with
\* the invalid-quantity reason; the only failures are invalid product (add
\* of an id outside the catalog) and item not found (remove of a product
\* without a line, from a non-empty cart).
C17_UIFailures ==
    (op \in {"add_to_cart", "remove_from_cart"}) =>
        /\ args[1] \in Int /\ args[1] >= 1
        /\ args[2] \in Int /\ args[2] >= 1
        /\ ret # InvalidQuantity
        /\ (ret[1] = FALSE =>
              \/ /\ op = "add_to_cart"
                 /\ ret = InvalidProduct
                 /\ args[1] \notin DOMAIN PRODUCTS
              \/ /\ op = "remove_from_cart"
                 /\ ret = ItemNotFound
                 /\ LinesOf(before, args[1]) = {}
                 /\ before # <<>>)

\* "Remove from Cart" was clicked for a product that has no line.
C17_Witness ==
    /\ op = "remove_from_cart"
    /\ menu = "Remove Item"
    /\ ret = ItemNotFound
    /\ before # <<>>
    /\ cart = before

\* C18: after a successful remove_from_cart that deleted product p's whole
\* line of quantity n, add_to_cart(p, n) succeeds and gives the same set of
\* lines as before the removal, with p's line at the end and all other
\* lines in their relative order.
C18_RemoveAddMovesToEnd ==
    [][(/\ op = "remove_from_cart"
        /\ ret = Success
        /\ Len(cart) < Len(before)
        /\ op' = "add_to_cart"
        /\ args'[1] = args[1]
        /\ \E k \in LinesOf(before, args[1]) :
              args'[2] = before[k].quantity)
          => LET k == CHOOSE i \in LinesOf(before, args[1]) : TRUE
             IN  /\ ret' = Success
                 /\ {cart'[i] : i \in 1 .. Len(cart')}
                       = {before[i] : i \in 1 .. Len(before)}
                 /\ Len(cart') = Len(before)
                 /\ cart'[Len(cart')] = before[k]
                 /\ \A i \in 1 .. (Len(before) - 1) :
                       cart'[i] = IF i < k THEN before[i]
                                  ELSE before[i + 1]]_vars

\* The end of such a round trip that changed the order: the cart of three
\* lines before the add is what removing the whole line {p, n} from
\* <<{p, n}>> \o (that cart) leaves, and the add put {p, n} last.
C18_Witness ==
    /\ op = "add_to_cart"
    /\ ret = Success
    /\ Len(before) = 2
    /\ LET line     == [product_id |-> args[1], quantity |-> args[2]]
           original == <<line>> \o before
       IN  /\ remove_from_cart(original, args[1], args[2]).ret = Success
           /\ remove_from_cart(original, args[1], args[2]).cart = before
           /\ cart = Append(before, line)
           /\ cart # original

====
